---- MODULE Spec2Model ----
(***************************************************************************)
(* NodeServicePlugin (apps/heft/src/plugins/NodeServicePlugin.ts): the     *)
(* supervisor of one child service process.  The plugin object's fields    *)
(* are the variables below; every event handler of the plugin (the start   *)
(* hook, the rebuild-completed hook, the three timer callbacks, the        *)
(* child's 'close' and 'error' listeners) is one atomic action, because    *)
(* Node.js runs each callback to completion.  apply(), which taps the      *)
(* handlers on the host's hooks, is modelled by BuildStage and             *)
(* LoadStageConfiguration (SpecApply); Spec starts with the handlers       *)
(* tapped.                                                                 *)
(*                                                                         *)
(* Time is counted in units of 1000 ms.                                    *)
(***************************************************************************)
EXTENDS Integers, Sequences, FiniteSets, TLC

\* ---------------------------------------------------------------- bounds
MaxTime == 6
MaxChildren == 3
MaxDelay == 3
MaxStopCalls == 1
MaxBuilds == 2

\* ------------------------------------------------------ program constants
\* Defaults of INodeServicePluginCompleteConfiguration, in units of 1000 ms.
waitBeforeRestartMs == 2
waitForTerminateMs == 2
waitForKillMs == 2

\* `undefined` for the optional number _restartTime.
Undef == -1
\* `undefined` for _activeChildProcess.
NoChild == 0
\* `undefined` for _timeout.
NoTimer == [kind |-> "none", at |-> 0]

Children == 1..MaxChildren

VARIABLES
    _state,                \* State.Stopped | Running | Stopping | Killing
    _activeChildProcess,   \* the ChildProcess the plugin holds, or NoChild
    _timeout,              \* the NodeJS.Timeout the plugin holds, or NoTimer
    _restartTime,          \* number | undefined
    _childProcessFailed,   \* boolean
    _isWindows,            \* process.platform === 'win32'
    now,                   \* performance.now()
    timers,                \* the timers armed in the Node.js runtime
    procs,                 \* every ChildProcess spawned so far, by spawn order
    spawned,               \* number of child_process.spawn calls so far
    started,               \* _runCommandAsync has been called
    thrown,                \* the InternalError raised so far, or "none"
    rebuildAt,             \* time of the latest rebuild-completed event received in
                           \* Stopped with no other event handled since, or Undef
    stopCalls,             \* direct _stopChild requests so far (SpecStop only)
    rebuildIn,             \* "Stopping" or "Killing" when the latest rebuild-completed
                           \* event was received in that state with no other event
                           \* handled since, else "none"
    _pluginEnabled,        \* boolean
    _nodeServiceConfiguration, \* the configuration file as loaded
    _configuration,        \* the complete configuration, or NoConfiguration
    _shellCommand,         \* string | undefined
    configFile,            \* config/node-service.json of the project
    scripts,               \* the script names of the project's package.json
    wired,                 \* the start and rebuild handlers are tapped
    builds,                \* build stages the host has begun
    loads                  \* loadStageConfiguration hooks the host has run

vars == <<_state, _activeChildProcess, _timeout, _restartTime, _childProcessFailed,
          _isWindows, now, timers, procs, spawned, started, thrown, rebuildAt,
          stopCalls, rebuildIn, _pluginEnabled, _nodeServiceConfiguration,
          _configuration, _shellCommand, configFile, scripts, wired, builds, loads>>

\* What apply() and the host's build stage own.
hostVars == <<_pluginEnabled, _nodeServiceConfiguration, _configuration, _shellCommand,
              configFile, scripts, wired, builds, loads>>

Max(a, b) == IF a >= b THEN a ELSE b

\* A ChildProcess object: what the operating system did with it (status), whether it
\* has emitted 'error', and the signals and the abandonment the plugin logged for it.
NoProc == [status |-> "none", errored |-> FALSE, log |-> <<>>]

\* The plugin object together with the runtime objects its methods touch.
Self ==
    [state |-> _state, child |-> _activeChildProcess, timeout |-> _timeout,
     restartTime |-> _restartTime, failed |-> _childProcessFailed,
     timers |-> timers, procs |-> procs, spawned |-> spawned, thrown |-> thrown]

Throw(o, msg) == [o EXCEPT !.thrown = msg]

Logged(o, what) == [o EXCEPT !.procs[o.child].log = Append(@, <<what, now>>)]

\* Variant of _clearTimeout that forgets the handle without calling clearTimeout().
_clearTimeout_ForgetOnly(o) == [o EXCEPT !.timeout = NoTimer]

\* _clearTimeout(): cancels the timer the plugin holds, if it holds one.
_clearTimeout(o) ==
    IF o.timeout # NoTimer
    THEN [o EXCEPT !.timers = @ \ {o.timeout}, !.timeout = NoTimer]
    ELSE o

\* this._timeout = setTimeout(callback, delay)
setTimeout(o, kind, delay) ==
    LET t == [kind |-> kind, at |-> now + delay]
    IN  [o EXCEPT !.timeout = t, !.timers = @ \cup {t}]

\* Variant of _scheduleRestart that overwrites the deadline with every request.
_scheduleRestart_AlwaysOverwrite(o, msFromNow) ==
    LET o1 == [o EXCEPT !.restartTime = now + msFromNow]
        o2 == _clearTimeout(o1)
    IN  setTimeout(o2, "restart", Max(0, o2.restartTime - now))

\* Variant of _scheduleRestart that keeps a pending deadline instead of raising it.
_scheduleRestart_KeepFirst(o, msFromNow) ==
    LET o1 == IF o.restartTime = Undef
              THEN [o EXCEPT !.restartTime = now + msFromNow]
              ELSE o
        o2 == _clearTimeout(o1)
    IN  setTimeout(o2, "restart", Max(0, o2.restartTime - now))

\* _scheduleRestart(msFromNow)
_scheduleRestart(o, msFromNow) ==
    LET newTime == now + msFromNow
        o1 == IF o.restartTime = Undef \/ newTime > o.restartTime
              THEN [o EXCEPT !.restartTime = newTime]
              ELSE o
        o2 == _clearTimeout(o1)
    IN  setTimeout(o2, "restart", Max(0, o2.restartTime - now))

\* Variant of _transitionToStopped that keeps the handle of the child.
_transitionToStopped_KeepsChild(o) ==
    LET o1 == _clearTimeout([o EXCEPT !.state = "Stopped"])
    IN  IF ~o1.failed THEN _scheduleRestart(o1, waitBeforeRestartMs) ELSE o1

\* _transitionToStopped()
_transitionToStopped(o) ==
    LET o1 == _clearTimeout([o EXCEPT !.state = "Stopped"])
        o2 == [o1 EXCEPT !.child = NoChild]
    IN  IF ~o2.failed THEN _scheduleRestart(o2, waitBeforeRestartMs) ELSE o2

\* SubprocessTerminator.killProcessTree(child, options): sends the forceful signal,
\* best effort.
killProcessTree(o) == Logged(o, "SIGKILL")

\* _transitionToKilling()
_transitionToKilling(o) ==
    LET o1 == _clearTimeout([o EXCEPT !.state = "Killing"])
    IN  IF o1.child = NoChild
        THEN Throw(o1, "_activeChildProcess should not be undefined")
        ELSE setTimeout(_clearTimeout(killProcessTree(o1)), "kill", waitForKillMs)

\* Variant of _stopChild without the Windows branch.
_stopChild_AlwaysGraceful(o, killOk) ==
    IF o.state # "Running" THEN o
    ELSE IF o.child = NoChild
         THEN Throw(o, "_activeChildProcess should not be undefined")
    ELSE LET o1 == _clearTimeout([o EXCEPT !.state = "Stopping"])
         IN  IF ~killOk THEN o1
             ELSE setTimeout(_clearTimeout(Logged(o1, "SIGTERM")), "terminate",
                             waitForTerminateMs)

\* Variant of _stopChild without the check of the state.
_stopChild_Unguarded(o, killOk) ==
    IF _isWindows THEN _transitionToKilling(o)
    ELSE IF o.child = NoChild
         THEN Throw(o, "_activeChildProcess should not be undefined")
    ELSE LET o1 == _clearTimeout([o EXCEPT !.state = "Stopping"])
         IN  IF ~killOk THEN o1
             ELSE setTimeout(_clearTimeout(Logged(o1, "SIGTERM")), "terminate",
                             waitForTerminateMs)

\* _stopChild(); killOk: process.kill(-pid, 'SIGTERM') returns rather than throws.
_stopChild(o, killOk) ==
    IF o.state # "Running" THEN o
    ELSE IF _isWindows THEN _transitionToKilling(o)
    ELSE IF o.child = NoChild
         THEN Throw(o, "_activeChildProcess should not be undefined")
    ELSE LET o1 == _clearTimeout([o EXCEPT !.state = "Stopping"])
         IN  IF ~killOk THEN o1
             ELSE setTimeout(_clearTimeout(Logged(o1, "SIGTERM")), "terminate",
                             waitForTerminateMs)

\* _restartChild(); spawnOk: the operating system launched the command.
_restartChild(o, spawnOk) ==
    IF o.state # "Stopped" THEN Throw(o, "Invalid state")
    ELSE LET o1 == _clearTimeout([o EXCEPT !.state = "Running"])
             id == o1.spawned + 1
         IN  [o1 EXCEPT !.child = id, !.spawned = id,
                        !.procs[id] = [NoProc EXCEPT
                            !.status = IF spawnOk THEN "alive" ELSE "spawnfail"]]

\* The 'close' listener registered by _restartChild.
OnClose(o) ==
    IF o.state = "Running" THEN _transitionToStopped([o EXCEPT !.failed = TRUE])
    ELSE IF o.state \in {"Stopping", "Killing"} THEN _transitionToStopped(o)
    ELSE o

\* The 'error' listener registered by _restartChild.
OnError(o) ==
    IF o.state = "Running" THEN _transitionToStopped([o EXCEPT !.failed = TRUE])
    ELSE IF o.state = "Stopping" THEN _transitionToKilling(o)
    ELSE IF o.state = "Killing" THEN _transitionToStopped(o)
    ELSE o

\* Variant of the rebuild handler that starts the stop sequence again in any state.
_compileHooks_afterEachIteration_StopsAgain(o, killOk) ==
    LET o1 == [o EXCEPT !.failed = FALSE]
    IN  IF o1.state = "Stopped"
        THEN _scheduleRestart(o1, waitBeforeRestartMs)
        ELSE _stopChild_Unguarded(o1, killOk)

\* _compileHooks_afterEachIteration; an exception of _stopChild is caught and printed.
_compileHooks_afterEachIteration(o, killOk) ==
    LET o1 == [o EXCEPT !.failed = FALSE]
    IN  IF o1.state = "Stopped"
        THEN _scheduleRestart(o1, waitBeforeRestartMs)
        ELSE _stopChild(o1, killOk)

\* The callback armed by _scheduleRestart.
OnRestartTimer(o, spawnOk) == _restartChild([o EXCEPT !.timeout = NoTimer], spawnOk)

\* The callback armed by _stopChild.
OnTerminateTimer(o) == _transitionToKilling([o EXCEPT !.timeout = NoTimer])

\* Variant of the kill-timer callback that counts the abandonment as a failure.
OnKillTimer_AsFailure(o) ==
    LET o1 == [o EXCEPT !.timeout = NoTimer, !.failed = TRUE]
    IN  _transitionToStopped(IF o1.child # NoChild THEN Logged(o1, "ABANDON") ELSE o1)

\* The callback armed by _transitionToKilling.
OnKillTimer(o) ==
    LET o1 == [o EXCEPT !.timeout = NoTimer]
    IN  _transitionToStopped(IF o1.child # NoChild THEN Logged(o1, "ABANDON") ELSE o1)

\* ---------------------------------------------------------------- actions

\* The fields after a handler has run.
Becomes(o) ==
    /\ _state' = o.state
    /\ _activeChildProcess' = o.child
    /\ _timeout' = o.timeout
    /\ _restartTime' = o.restartTime
    /\ _childProcessFailed' = o.failed
    /\ timers' = o.timers
    /\ procs' = o.procs
    /\ spawned' = o.spawned
    /\ thrown' = o.thrown

\* A spawn that failed is reported on the next tick, before any other callback.
SpawnErrorPending == \E c \in Children : procs[c].status = "spawnfail" /\ ~procs[c].errored

\* A call that would spawn is taken only while the model has a child left to spawn.
CanSpawn == _state = "Stopped" => spawned < MaxChildren

\* `undefined` for _shellCommand and for an optional setting of the file.
Undefined == "undefined"

\* The script names a package.json may define.
CommandNames == {"serve", "start"}

\* config/node-service.json: absent, or present with or without "commandName".
\* (The waits are the defaults above; ignoreMissingScript only selects the message
\* that is printed.)
ConfigFiles ==
    {[exists |-> FALSE, commandName |-> Undefined]}
        \cup [exists : {TRUE}, commandName : CommandNames \cup {Undefined}]

\* _configuration before the first load.
NoConfiguration == [commandName |-> Undefined]

\* The fields of a new NodeServicePlugin, and the bookkeeping of the model.
InitFields ==
    /\ _state = "Stopped"
    /\ _activeChildProcess = NoChild
    /\ _timeout = NoTimer
    /\ _restartTime = Undef
    /\ _childProcessFailed = FALSE
    /\ _isWindows \in BOOLEAN
    /\ now = 0
    /\ timers = {}
    /\ procs = [c \in Children |-> NoProc]
    /\ spawned = 0
    /\ started = FALSE
    /\ thrown = "none"
    /\ rebuildAt = Undef
    /\ stopCalls = 0
    /\ rebuildIn = "none"

\* The supervisor once apply() has tapped its handlers: the project has
\* config/node-service.json and the "serve" script, and the host has no build stage
\* left to begin.
Init ==
    /\ InitFields
    /\ configFile = [exists |-> TRUE, commandName |-> Undefined]
    /\ scripts = {"serve"}
    /\ _nodeServiceConfiguration = configFile
    /\ _configuration = [commandName |-> "serve"]
    /\ _shellCommand = "serve"
    /\ _pluginEnabled = TRUE
    /\ wired = TRUE
    /\ builds = MaxBuilds
    /\ loads = MaxBuilds

\* performance.now() advances.
Tick ==
    /\ ~SpawnErrorPending
    /\ now < MaxTime
    /\ now' = now + 1
    /\ UNCHANGED <<_state, _activeChildProcess, _timeout, _restartTime,
                   _childProcessFailed, _isWindows, timers, procs, spawned, started,
                   thrown, rebuildAt, stopCalls, rebuildIn>>
    /\ UNCHANGED hostVars

\* postBuild run hook: _runCommandAsync.
RunCommand ==
    /\ ~SpawnErrorPending
    /\ ~started
    /\ CanSpawn
    /\ started' = TRUE
    /\ \E spawnOk \in BOOLEAN : Becomes(_restartChild(Self, spawnOk))
    /\ rebuildAt' = Undef
    /\ rebuildIn' = "none"
    /\ UNCHANGED hostVars
    /\ UNCHANGED <<_isWindows, now, stopCalls>>

\* compile afterEachIteration hook: a rebuild has completed.
RebuildCompleted ==
    /\ ~SpawnErrorPending
    /\ \E killOk \in BOOLEAN : Becomes(_compileHooks_afterEachIteration(Self, killOk))
    /\ rebuildAt' = IF _state = "Stopped" THEN now ELSE Undef
    /\ rebuildIn' = IF _state \in {"Stopping", "Killing"} THEN _state ELSE "none"
    /\ UNCHANGED hostVars
    /\ UNCHANGED <<_isWindows, now, started, stopCalls>>

\* The runtime runs the callback of an armed timer whose delay has elapsed.
Fires(kind, t) ==
    /\ ~SpawnErrorPending
    /\ t \in timers
    /\ t.kind = kind
    /\ now >= t.at

RestartTimerFires ==
    \E t \in timers :
        /\ Fires("restart", t)
        /\ CanSpawn
        /\ \E spawnOk \in BOOLEAN :
               Becomes(OnRestartTimer([Self EXCEPT !.timers = @ \ {t}], spawnOk))
        /\ rebuildAt' = Undef
        /\ rebuildIn' = "none"
        /\ UNCHANGED hostVars
    /\ rebuildIn' = "none"
    /\ UNCHANGED hostVars
        /\ UNCHANGED <<_isWindows, now, started, stopCalls>>

TerminateTimerFires ==
    \E t \in timers :
        /\ Fires("terminate", t)
        /\ Becomes(OnTerminateTimer([Self EXCEPT !.timers = @ \ {t}]))
        /\ rebuildAt' = Undef
        /\ rebuildIn' = "none"
        /\ UNCHANGED hostVars
    /\ rebuildIn' = "none"
    /\ UNCHANGED hostVars
        /\ UNCHANGED <<_isWindows, now, started, stopCalls>>

KillTimerFires ==
    \E t \in timers :
        /\ Fires("kill", t)
        /\ Becomes(OnKillTimer([Self EXCEPT !.timers = @ \ {t}]))
        /\ rebuildAt' = Undef
        /\ rebuildIn' = "none"
        /\ UNCHANGED hostVars
    /\ rebuildIn' = "none"
    /\ UNCHANGED hostVars
        /\ UNCHANGED <<_isWindows, now, started, stopCalls>>

\* Child c has ended: 'close' is emitted.
ChildClose(c) ==
    /\ ~SpawnErrorPending
    /\ procs[c].status = "alive"
    /\ Becomes(OnClose([Self EXCEPT !.procs[c].status = "closed"]))
    /\ rebuildAt' = Undef
    /\ rebuildIn' = "none"
    /\ UNCHANGED hostVars
    /\ UNCHANGED <<_isWindows, now, started, stopCalls>>

\* Child c emits 'error'.  Either it could not be spawned, and the runtime emits
\* 'error' and then 'close' in the same tick; or it is the child the plugin is
\* terminating and it could not be signalled.
ChildError(c) ==
    /\ ~procs[c].errored
    /\ \/ procs[c].status = "spawnfail"
       \/ /\ procs[c].status = "alive"
          /\ c = _activeChildProcess
          /\ _state \in {"Stopping", "Killing"}
    /\ Becomes(IF procs[c].status = "spawnfail"
               THEN OnClose(OnError([Self EXCEPT !.procs[c].errored = TRUE,
                                                 !.procs[c].status = "closed"]))
               ELSE OnError([Self EXCEPT !.procs[c].errored = TRUE]))
    /\ rebuildAt' = Undef
    /\ rebuildIn' = "none"
    /\ UNCHANGED hostVars
    /\ UNCHANGED <<_isWindows, now, started, stopCalls>>

Next ==
    \/ Tick
    \/ RunCommand
    \/ RebuildCompleted
    \/ RestartTimerFires
    \/ TerminateTimerFires
    \/ KillTimerFires
    \/ \E c \in Children : ChildClose(c)
    \/ \E c \in Children : ChildError(c)

Spec == Init /\ [][Next]_vars

\* ------------------------------------------------------- apply() and the host

\* A new plugin object in any project, before the host has begun a build stage.
InitApply ==
    /\ InitFields
    /\ configFile \in ConfigFiles
    /\ scripts \in SUBSET CommandNames
    /\ _nodeServiceConfiguration = [exists |-> FALSE, commandName |-> Undefined]
    /\ _configuration = NoConfiguration
    /\ _shellCommand = Undefined
    /\ _pluginEnabled = FALSE
    /\ wired = FALSE
    /\ builds = 0
    /\ loads = 0

\* The package.json script that _configuration.commandName names, or undefined.
ScriptOf(commandName) == IF commandName \in scripts THEN commandName ELSE Undefined

\* The host begins a build stage and runs the callback tapped on hooks.build: it
\* taps loadStageConfiguration, then taps the start and rebuild handlers if
\* _pluginEnabled is set at that moment.
BuildStage ==
    /\ builds < MaxBuilds
    /\ loads = builds
    /\ builds' = builds + 1
    /\ wired' = _pluginEnabled
    /\ UNCHANGED <<_state, _activeChildProcess, _timeout, _restartTime,
                   _childProcessFailed, _isWindows, now, timers, procs, spawned, started,
                   thrown, rebuildAt, stopCalls, rebuildIn>>
    /\ UNCHANGED <<_pluginEnabled, _nodeServiceConfiguration, _configuration,
                   _shellCommand, configFile, scripts, loads>>

\* The host runs the loadStageConfiguration hook of the build stage it has begun.
LoadStageConfiguration ==
    /\ loads < builds
    /\ loads' = loads + 1
    /\ _nodeServiceConfiguration' = configFile
    /\ LET commandName == IF configFile.exists /\ configFile.commandName # Undefined
                          THEN configFile.commandName
                          ELSE "serve"
       IN  /\ _configuration' = [commandName |-> commandName]
           /\ _shellCommand' = IF configFile.exists THEN ScriptOf(commandName)
                               ELSE _shellCommand
           /\ _pluginEnabled' = IF configFile.exists
                                THEN ScriptOf(commandName) # Undefined
                                ELSE _pluginEnabled
    /\ UNCHANGED <<_state, _activeChildProcess, _timeout, _restartTime,
                   _childProcessFailed, _isWindows, now, timers, procs, spawned, started,
                   thrown, rebuildAt, stopCalls, rebuildIn>>
    /\ UNCHANGED <<configFile, scripts, wired, builds>>

\* The hooks the plugin's handlers are tapped on run only if they were tapped.
NextApply ==
    \/ BuildStage
    \/ LoadStageConfiguration
    \/ (wired /\ Next)

SpecApply == InitApply /\ [][NextApply]_vars

\* ------------------------------------------- the plugin's methods, called directly

\* _stopChild() requested in any state.
StopRequest ==
    /\ ~SpawnErrorPending
    /\ stopCalls < MaxStopCalls
    /\ stopCalls' = stopCalls + 1
    /\ \E killOk \in BOOLEAN : Becomes(_stopChild(Self, killOk))
    /\ rebuildAt' = Undef
    /\ rebuildIn' = "none"
    /\ UNCHANGED hostVars
    /\ UNCHANGED <<_isWindows, now, started>>

\* _scheduleRestart(ms) requested while Stopped, with any delay.
RequestRestart(ms) ==
    /\ ~SpawnErrorPending
    /\ _state = "Stopped"
    /\ Becomes(_scheduleRestart(Self, ms))
    /\ rebuildAt' = Undef
    /\ rebuildIn' = "none"
    /\ UNCHANGED hostVars
    /\ UNCHANGED <<_isWindows, now, started, stopCalls>>

\* The plugin with _stopChild() also requested from outside its handlers.
NextStop ==
    \/ Next
    \/ StopRequest

SpecStop == Init /\ [][NextStop]_vars

\* The restart scheduler driven with any delays: the requests, the restart timer
\* and the end of the child it spawned.
NextSched ==
    \/ Tick
    \/ \E ms \in 0..MaxDelay : RequestRestart(ms)
    \/ RestartTimerFires
    \/ \E c \in Children : ChildClose(c)
    \/ \E c \in Children : ChildError(c)

SpecSched == Init /\ [][NextSched]_vars

\* The plugin under the runtime's scheduling: the clock advances, but not past the
\* moment an armed timer is due, and a timer that is due has its callback run.
\* Nothing obliges a rebuild to complete or a child to end.
TickOnTime ==
    /\ Tick
    /\ \A t \in timers : now < t.at

NextFair ==
    \/ TickOnTime
    \/ RunCommand
    \/ RebuildCompleted
    \/ RestartTimerFires
    \/ TerminateTimerFires
    \/ KillTimerFires
    \/ \E c \in Children : ChildClose(c)
    \/ \E c \in Children : ChildError(c)

SpecFair ==
    /\ Init
    /\ [][NextFair]_vars
    /\ WF_vars(TickOnTime)
    /\ WF_vars(RestartTimerFires)
    /\ WF_vars(TerminateTimerFires)
    /\ WF_vars(KillTimerFires)

\* ----------------------------------------------------------------- claims

HasLogged(c, what) == \E i \in 1..Len(procs[c].log) : procs[c].log[i][1] = what

Abandoned(c) == HasLogged(c, "ABANDON")

\* C1: in every reachable state at most one child is alive that has neither been
\* reported closed to the plugin nor been abandoned by the kill timeout, i.e. no
\* child is spawned while such a child exists.
C1_AtMostOneLiveChild ==
    Cardinality({c \in Children : procs[c].status = "alive" /\ ~Abandoned(c)}) <= 1

\* C2: a 'close' or 'error' of the child handled in Running leaves the plugin
\* Stopped with _childProcessFailed set and no timer armed; while it is Stopped
\* with _childProcessFailed set no step spawns a child; and only the
\* rebuild-completed handler sets _childProcessFailed back to false.
C2_NoRestartAfterFailure ==
    [][ /\ (_state = "Running" /\ \E c \in Children : ChildClose(c) \/ ChildError(c))
            => (_state' = "Stopped" /\ _childProcessFailed' /\ timers' = {}
                /\ spawned' = spawned)
        /\ (_state = "Stopped" /\ _childProcessFailed) => spawned' = spawned
        /\ (_childProcessFailed /\ ~_childProcessFailed') => RebuildCompleted
      ]_vars

\* C3: a 'close' or 'error' notification of a child other than the most recently
\* spawned one never changes _childProcessFailed and never moves the plugin out of
\* Running.
C3_StaleNotificationIgnored ==
    [][ \A c \in Children :
            ((ChildClose(c) \/ ChildError(c)) /\ c # spawned)
            => /\ _childProcessFailed' = _childProcessFailed
               /\ _state = "Running" => _state' = "Running"
      ]_vars

\* C4: _restartTime never decreases and is never cleared by a request: every step
\* leaves it unchanged or raises it to now + delay for the delay requested.
C4_RestartTimeMonotonic ==
    [][ _restartTime' # _restartTime
        => /\ _restartTime' > _restartTime
           /\ \E ms \in (0..MaxDelay) \cup {waitBeforeRestartMs} :
                  _restartTime' = now + ms
      ]_vars

\* A request has set the deadline further ahead than waitBeforeRestartMs.
C4_Witness ==
    /\ _state = "Stopped"
    /\ _timeout = [kind |-> "restart", at |-> _restartTime]
    /\ _restartTime > now + waitBeforeRestartMs
    /\ now > 0

\* C5: after rebuild-completed events received in Stopped, with no other event
\* handled since the last of them, exactly one restart timer is armed, due no earlier
\* than waitBeforeRestartMs after the last event; the spawn it causes happens no
\* earlier than that, is a single spawn, and leaves no timer armed.
C5_DebouncedRestart ==
    [][ rebuildAt # Undef
        => /\ _state = "Stopped"
           /\ \E t \in timers :
                  /\ timers = {t}
                  /\ t.kind = "restart"
                  /\ t.at >= rebuildAt + waitBeforeRestartMs
           /\ (spawned' # spawned /\ started' = started)
              => /\ now >= rebuildAt + waitBeforeRestartMs
                 /\ spawned' = spawned + 1
                 /\ _state' = "Running"
                 /\ timers' = {}
      ]_vars

\* The restart timer has spawned the first child at its deadline, which a
\* rebuild-completed event after time 0 had raised.
C5_Witness ==
    /\ ~started
    /\ spawned = 1
    /\ _state = "Running"
    /\ _restartTime = waitBeforeRestartMs + 1
    /\ now = _restartTime

\* What the plugin has logged for child c is a prefix of: SIGTERM, SIGKILL no earlier
\* than waitForTerminateMs later, abandonment no earlier than waitForKillMs later.
EscalationChain(c) ==
    LET log == procs[c].log
    IN  /\ Len(log) <= 3
        /\ Len(log) >= 1 => log[1][1] = "SIGTERM"
        /\ Len(log) >= 2 => /\ log[2][1] = "SIGKILL"
                            /\ log[2][2] >= log[1][2] + waitForTerminateMs
        /\ Len(log) >= 3 => /\ log[3][1] = "ABANDON"
                            /\ log[3][2] >= log[2][2] + waitForKillMs

\* The state the plugin is in after the last thing it logged for child c.
StateAfter(what) ==
    IF what = "SIGTERM" THEN "Stopping"
    ELSE IF what = "SIGKILL" THEN "Killing"
    ELSE "Stopped"

\* C6: off Windows, for a child that has not closed and has emitted no 'error', the
\* plugin sends SIGTERM (entering Stopping), then SIGKILL no earlier than
\* waitForTerminateMs later (entering Killing), then abandons it no earlier than
\* waitForKillMs later (entering Stopped), and nothing after the abandonment; and
\* once it has signalled such a child it lets go of it only by abandoning it.
C6_EscalationChain ==
    [][ ~_isWindows
        => \A c \in Children :
               (procs'[c].status = "alive" /\ ~procs'[c].errored)
               => /\ EscalationChain(c)'
                  /\ procs'[c].log # procs[c].log
                     => /\ Len(procs'[c].log) = Len(procs[c].log) + 1
                        /\ procs'[c].log[Len(procs'[c].log)][2] = now
                        /\ _state' = StateAfter(procs'[c].log[Len(procs'[c].log)][1])
                  /\ (procs[c].log # <<>> /\ _activeChildProcess = c
                          /\ _activeChildProcess' # c)
                     => Abandoned(c)'
      ]_vars

\* C7: on Windows the plugin is never Stopping, never sends SIGTERM and never arms
\* the escalation timer; a rebuild-completed event in Running enters Killing, sends
\* SIGKILL to the child and arms the waitForKillMs abandonment timer.
C7_WindowsSkipsStopping ==
    [][ _isWindows
        => /\ _state' # "Stopping"
           /\ \A c \in Children : ~HasLogged(c, "SIGTERM")'
           /\ \A t \in timers' : t.kind # "terminate"
           /\ (_state = "Running" /\ RebuildCompleted)
              => /\ _state' = "Killing"
                 /\ _activeChildProcess' = _activeChildProcess
                 /\ procs'[_activeChildProcess].log =
                        Append(procs[_activeChildProcess].log, <<"SIGKILL", now>>)
                 /\ timers' = {[kind |-> "kill", at |-> now + waitForKillMs]}
      ]_vars

\* On Windows a stop was requested in Running: Killing, with SIGKILL sent first.
C7_Witness ==
    /\ _isWindows
    /\ _state = "Killing"
    /\ _activeChildProcess # NoChild
    /\ procs[_activeChildProcess].log = << <<"SIGKILL", 1>> >>
    /\ timers = {[kind |-> "kill", at |-> 1 + waitForKillMs]}

\* C8: _stopChild() requested while Stopped changes nothing: no signal, no
\* transition, and the child handle, the timer, _restartTime and
\* _childProcessFailed stay as they were.
C8_StopWhileStoppedIsNoOp ==
    [][ (stopCalls' # stopCalls /\ _state = "Stopped")
        => UNCHANGED <<_state, _activeChildProcess, _timeout, timers, _restartTime,
                       _childProcessFailed, procs, spawned, thrown>>
      ]_vars

\* _stopChild() was requested with a restart pending and no child ever spawned.
C8_Witness ==
    /\ stopCalls > 0
    /\ spawned = 0
    /\ _state = "Stopped"
    /\ _timeout.kind = "restart"
    /\ _restartTime # Undef

\* C9: _restartChild never throws InternalError('Invalid state').
C9_InvalidStateUnreachable == thrown # "Invalid state"

\* C10: at most one timer is armed, it is the one the plugin holds, and it is armed
\* only in the state it was armed for (restart in Stopped, escalation in Stopping,
\* abandonment in Killing), so no timer fires in another state.
C10_OneTimerForTheState ==
    /\ Cardinality(timers) <= 1
    /\ timers \subseteq {_timeout}
    /\ \A t \in timers :
           /\ t.kind = "restart" => _state = "Stopped"
           /\ t.kind = "terminate" => _state = "Stopping"
           /\ t.kind = "kill" => _state = "Killing"

\* The escalation timer has fired in Stopping and the abandonment timer replaced it.
C10_Witness ==
    /\ _state = "Killing"
    /\ _activeChildProcess # NoChild
    /\ Len(procs[_activeChildProcess].log) = 2
    /\ procs[_activeChildProcess].log[1][1] = "SIGTERM"
    /\ timers = {[kind |-> "kill", at |-> now + waitForKillMs]}

\* C11: once a rebuild-completed event has been received in Running, Stopping or
\* Killing (the plugin is then Stopping or Killing), the plugin eventually enters
\* Stopped, whether the old child ever ends or not, provided the timers fire when
\* due; from there the restart leads to Running with a new child.  The formula is the
\* first half; a behaviour in which the clock of the model ends while the timer that
\* leads to Stopped is still armed is not counted against it.
C11_EventuallyStopped ==
    (_state \in {"Stopping", "Killing"})
    ~> (_state = "Stopped" \/ \E t \in timers : t.at > MaxTime)

\* C12: when the kill timer fires in Killing the child is abandoned and this is not
\* a failure: _childProcessFailed was false and stays false, the plugin is Stopped
\* without a child handle and without having spawned, and the one timer armed is
\* the restart timer, due waitBeforeRestartMs after that moment.
C12_AbandonmentIsNotFailure ==
    [][ (KillTimerFires /\ _state = "Killing")
        => /\ ~_childProcessFailed
           /\ ~_childProcessFailed'
           /\ _state' = "Stopped"
           /\ _activeChildProcess' = NoChild
           /\ \A c \in Children : c = _activeChildProcess => Abandoned(c)'
           /\ spawned' = spawned
           /\ _restartTime' = now + waitBeforeRestartMs
           /\ _timeout' = [kind |-> "restart", at |-> now + waitBeforeRestartMs]
           /\ timers' = {_timeout'}
      ]_vars

\* A child that is still alive has just been abandoned and the restart is scheduled.
C12_Witness ==
    /\ _state = "Stopped"
    /\ ~_childProcessFailed
    /\ timers = {[kind |-> "restart", at |-> now + waitBeforeRestartMs]}
    /\ \E c \in Children :
           /\ procs[c].status = "alive"
           /\ Len(procs[c].log) > 0
           /\ procs[c].log[Len(procs[c].log)] = <<"ABANDON", now>>

\* C13: between handlers the plugin holds a child handle exactly when it is Running,
\* Stopping or Killing; in Stopped _activeChildProcess is undefined.
C13_ChildHandleIffNotStopped ==
    /\ _state \in {"Stopped", "Running", "Stopping", "Killing"}
    /\ (_activeChildProcess # NoChild) <=> (_state # "Stopped")

\* The plugin is Stopped without a handle although a child it spawned is alive.
C13_Witness ==
    /\ _state = "Stopped"
    /\ _activeChildProcess = NoChild
    /\ \E c \in Children : procs[c].status = "alive"

\* C14: the restart consumes the deadline: right after every step from Stopped to
\* Running _restartTime is undefined, so that the next _scheduleRestart starts from
\* an empty deadline.
C14_RestartClearsDeadline ==
    [][ (_state = "Stopped" /\ _state' = "Running") => _restartTime' = Undef ]_vars

\* The plugin has just escalated to the forceful signal for child c.
EscalatedToKilling(c) ==
    /\ _state = "Killing"
    /\ _activeChildProcess = c
    /\ Len(procs[c].log) > 0
    /\ procs[c].log[Len(procs[c].log)] = <<"SIGKILL", now>>
    /\ _timeout = [kind |-> "kill", at |-> now + waitForKillMs]
    /\ timers = {_timeout}

\* C15: off Windows, when the graceful signal cannot be delivered -- the
\* rebuild-completed handler stops the Running child and no SIGTERM has been sent
\* when it returns, or the child emits 'error' while the plugin is Stopping -- the
\* plugin is Killing after the handler: it has sent the forceful signal and armed
\* the waitForKillMs timer.
C15_FailedSignalEscalates ==
    [][ \A c \in Children :
            /\ (/\ RebuildCompleted
                /\ _state = "Running"
                /\ ~_isWindows
                /\ c = _activeChildProcess
                /\ ~HasLogged(c, "SIGTERM")')
               => EscalatedToKilling(c)'
            /\ (ChildError(c) /\ _state = "Stopping" /\ ~_isWindows)
               => EscalatedToKilling(c)'
      ]_vars

\* C16: every step from Stopping or Killing to Stopped is the 'close' of the child
\* the plugin holds or the kill timer firing; no other event takes the plugin from
\* Stopping or Killing to Stopped.
C16_StoppedOnlyByCloseOrAbandonment ==
    [][ (_state \in {"Stopping", "Killing"} /\ _state' = "Stopped")
        => \/ KillTimerFires
           \/ \E c \in Children : c = _activeChildProcess /\ ChildClose(c)
      ]_vars

\* The project has config/node-service.json and its package.json has the script the
\* configuration names ("serve" when it names none).
ConfigEnables ==
    /\ configFile.exists
    /\ (IF configFile.commandName # Undefined THEN configFile.commandName ELSE "serve")
           \in scripts

\* C17: once the configuration of the build stage has been loaded, the start and
\* rebuild handlers are tapped exactly when the configuration file exists and the
\* package.json has the configured script, and _pluginEnabled says the same; in a
\* project without the file or without the script no child is ever spawned.
C17_WiredIffConfigured ==
    /\ (builds >= 1 /\ loads = builds)
       => /\ _pluginEnabled <=> ConfigEnables
          /\ wired <=> ConfigEnables
    /\ ~ConfigEnables => (~wired /\ spawned = 0)

\* C18: whenever the plugin is Stopping or Killing between handlers a termination
\* timer is armed, the terminate timer in Stopping and the kill timer in Killing,
\* also when the signal could not be sent; so the plugin never waits without limit
\* for a child that does not end.
C18_TerminationTimerArmed ==
    /\ _state = "Stopping" => \E t \in timers : t.kind = "terminate" /\ t = _timeout
    /\ _state = "Killing" => \E t \in timers : t.kind = "kill" /\ t = _timeout

\* C19: a rebuild-completed event received in Stopping or Killing leaves
\* _childProcessFailed false and changes nothing else: no signal is sent, the state
\* and the child stay, and the armed timer is neither cancelled nor armed again, so
\* rebuild events cannot postpone the forceful signal or the abandonment.
C19_RebuildWhileTerminatingIsInert ==
    [][ (RebuildCompleted /\ _state \in {"Stopping", "Killing"})
        => /\ ~_childProcessFailed'
           /\ UNCHANGED <<_state, _activeChildProcess, _timeout, _restartTime, timers,
                          procs, spawned, thrown>>
      ]_vars

\* A rebuild-completed event has just been received in Stopping at the moment the
\* terminate timer is due, and the timer is still armed for that moment.
C19_Witness ==
    /\ rebuildIn = "Stopping"
    /\ _state = "Stopping"
    /\ ~_childProcessFailed
    /\ _timeout.kind = "terminate"
    /\ _timeout.at = now
    /\ timers = {_timeout}
====
